---- MODULE Spec2Model ----
(***************************************************************************)
(* Daily-News: the /generate_podcast request pipeline of app.py and the    *)
(* script generator of writer.py, as one state machine.                    *)
(*                                                                         *)
(* A request walks through the positions of generate_podcast (g_...) and, *)
(* inside it, of writer.generate_podcast_script (w_...). Upstream services *)
(* (the five source APIs, the text model, the speech model) are inputs     *)
(* chosen with \E at the step that calls them.                             *)
(***************************************************************************)
EXTENDS Integers, Sequences, FiniteSets, TLC

(***************************************************************************)
(* Bounds of the model (not program constants).                            *)
(***************************************************************************)
MaxItems == 6        \* longest article list an upstream returns
MaxErr == 2          \* number of distinct exception messages of the speech API

(***************************************************************************)
(* Program constants.                                                      *)
(***************************************************************************)
MaxRetries == 2                 \* try_tts_generation(max_retries=2)
RetryDelay == 1                 \* time.sleep(1)
GateMinLen == 50                \* len(script.strip()) < 50
WriterMinLen == 100             \* len(script) < 100
TruncateLen == 3000             \* script[:3000] + "..."
ExcerptLen == 5                 \* gnews_data[:5]
MinAudioBytes == 1000           \* len(pcm_bytes) < 1000
DefaultRate == 24000            \* sample_rate default
PreviewLen == 200               \* script[:200] in debug_script
DebugMinLen == 50               \* len(script) > 50 in debug_script
MaxFrameRate == 2147483647      \* wave header: nchannels * framerate * sampwidth is packed as '<L'
TooShortMsgLen == 29            \* len("Generated script is too short")

TtsModels == << "gemini-2.5-flash-preview-tts", "gemini-2.5-pro-preview-tts" >>

(***************************************************************************)
(* Strings.  A string is a run-length encoded sequence of characters, in   *)
(* normal form (no empty run, no two adjacent runs of the same character). *)
(* Characters are kept only as far as the code looks at them: "ws" is any  *)
(* whitespace, "*" the emphasis mark, "E" "r" "o" the letters of the       *)
(* marker "Error", "." the full stop and "x" any other character.          *)
(***************************************************************************)
Run(c, n) == [c |-> c, n |-> n]

RECURSIVE Norm(_)
Norm(s) ==
    IF Len(s) = 0 THEN << >>
    ELSE IF s[1].n = 0 THEN Norm(Tail(s))
    ELSE LET r == Norm(Tail(s)) IN
         IF Len(r) > 0 /\ r[1].c = s[1].c
         THEN << Run(s[1].c, s[1].n + r[1].n) >> \o Tail(r)
         ELSE << s[1] >> \o r

Cat(a, b) == Norm(a \o b)

RECURSIVE StrLen(_)
StrLen(s) == IF Len(s) = 0 THEN 0 ELSE s[1].n + StrLen(Tail(s))

\* s[:n]
RECURSIVE Take(_, _)
Take(s, n) ==
    IF n = 0 \/ Len(s) = 0 THEN << >>
    ELSE IF s[1].n <= n THEN << s[1] >> \o Take(Tail(s), n - s[1].n)
    ELSE << Run(s[1].c, n) >>

\* the characters of a (short) string, one by one
RECURSIVE Expand(_)
Expand(s) ==
    IF Len(s) = 0 THEN << >>
    ELSE IF s[1].n = 1 THEN << s[1].c >> \o Expand(Tail(s))
    ELSE << s[1].c >> \o Expand(<< Run(s[1].c, s[1].n - 1) >> \o Tail(s))

FromChars(cs) == Norm([i \in 1..Len(cs) |-> Run(cs[i], 1)])

ErrorMarker == << "E", "r", "r", "o", "r" >>

\* s.startswith(p), p given character by character
StartsWith(s, p) == Expand(Take(s, Len(p))) = p

\* s.strip()
LStrip(s) == IF Len(s) > 0 /\ s[1].c = "ws" THEN Tail(s) ELSE s
RStrip(s) == IF Len(s) > 0 /\ s[Len(s)].c = "ws" THEN SubSeq(s, 1, Len(s) - 1) ELSE s
Strip(s) == RStrip(LStrip(s))

\* s.replace("**", ""): one left-to-right pass over non-overlapping pairs
ReplaceDoubleStar(s) ==
    Norm([i \in 1..Len(s) |-> IF s[i].c = "*" THEN Run("*", s[i].n % 2) ELSE s[i]])
\* s.replace("*", "")
ReplaceStar(s) ==
    Norm([i \in 1..Len(s) |-> IF s[i].c = "*" THEN Run("*", 0) ELSE s[i]])

EmptyStr == << >>
Ellipsis == << Run(".", 3) >>
Truthy(s) == StrLen(s) > 0

(***************************************************************************)
(* Messages the code builds.  Only the length, the first characters and    *)
(* the ends of a message are looked at by the code that receives it, so    *)
(* the interpolated middle is a run of "x".                                *)
(***************************************************************************)
ErrorMsg(tail) == Cat(FromChars(ErrorMarker), << Run("x", tail) >>)
MsgImportFailed == ErrorMsg(45)      \* "Error: Failed to import google.generativeai: ..."
MsgKeyMissing == ErrorMsg(51)        \* "Error: GEMINI_API_KEY not found in environment variables."
MsgInitFailed == ErrorMsg(40)        \* "Error initializing Gemini client: ..."
MsgEmptyResponse == ErrorMsg(28)     \* "Error: Empty response from Gemini"
MsgCallFailed == ErrorMsg(30)        \* "Error generating script: ..."
MsgTooShort == << Run("x", TooShortMsgLen) >>   \* "Generated script is too short"

(***************************************************************************)
(* Configuration: the process environment and the .env file.               *)
(***************************************************************************)
GEMINI == "GEMINI_API_KEY"
GNEWS == "GNEWS_API_KEY"
NEWSAPI == "NEWSAPI_API_KEY"
NYTIMES == "NYTIMES_API_KEY"
ALPHA == "ALPHA_VANTAGE_API_KEY"
WEATHER == "WEATHER_API_KEY"
SourceKeys == {GNEWS, NEWSAPI, NYTIMES, ALPHA, WEATHER}
AllKeys == SourceKeys \cup {GEMINI}

\* (environment at start-up, keys defined in the .env file)
Configs ==
    { << AllKeys, {} >>,
      << {GEMINI}, {} >>,
      << SourceKeys, {} >>,
      << {GEMINI}, SourceKeys >>,
      << {}, AllKeys >> }

(***************************************************************************)
(* Values returned by the fetchers: a list, a mapping or None, with the    *)
(* items (or entries) numbered 1..n in upstream order.                     *)
(***************************************************************************)
Val(t, v) == [t |-> t, v |-> v]
ListOf(n) == Val("list", [i \in 1..n |-> i])
DictOf(n) == Val("dict", [i \in 1..n |-> i])
EmptyList == ListOf(0)
EmptyDict == DictOf(0)
NoneVal == Val("none", << >>)
Unset == Val("unset", << >>)
IsTrue(val) == val.t \in {"list", "dict"} /\ Len(val.v) > 0     \* Python truthiness
HasLen(val) == val.t \in {"list", "dict"}                       \* len(val) defined

(***************************************************************************)
(* What an upstream source API answers to one GET.                         *)
(*   net    : "ok", "http" (error status), "timeout" (no answer in 15 s)   *)
(*   json   : the body is "invalid" JSON, an "array", "null" or an "object"*)
(*   field  : the articles/results member is "missing", "null" or a "list" *)
(*   status : the NewsAPI status member                                    *)
(*   n      : the number of items (entries, for the two mapping sources)   *)
(***************************************************************************)
Up(net, json, field, status, n) ==
    [net |-> net, json |-> json, field |-> field, status |-> status, n |-> n]
NoUp == Up("none", "none", "none", "none", 0)
\* list lengths an upstream answers with: none, one, the excerpt length, the longest
ListSizes == {0, 1, ExcerptLen, MaxItems}
Upstreams ==
    { Up("http", "none", "none", "none", 0),
      Up("timeout", "none", "none", "none", 0),
      Up("ok", "invalid", "none", "none", 0),
      Up("ok", "array", "none", "none", 1),
      Up("ok", "null", "none", "none", 0),
      Up("ok", "object", "missing", "ok", 1),
      Up("ok", "object", "null", "ok", 1),
      Up("ok", "object", "list", "error", 1) }
    \cup { Up("ok", "object", "list", "ok", n) : n \in ListSizes }

\* the two mapping sources: the payload is passed on whole, one entry is enough
MapUpstreams == { u \in Upstreams : u.n <= 1 }

\* the outcome of a try body: a returned value or a raised exception
Ret(val) == [exc |-> "", val |-> val]
Exc(kind) == [exc |-> kind, val |-> Unset]

\* data.get(key, default) on a parsed object
DictGet(u, default) ==
    IF u.field = "missing" THEN default
    ELSE IF u.field = "null" THEN NoneVal
    ELSE ListOf(u.n)

\* response.read()/requests.get(...).raise_for_status()/.json()
ParsedBody(u, httpExc, netExc) ==
    IF u.net = "http" THEN Exc(httpExc)
    ELSE IF u.net = "timeout" THEN Exc(netExc)
    ELSE IF u.json = "invalid" THEN Exc("JSONDecodeError")
    ELSE Ret(Unset)

\* r.json() of a body that parsed
JsonValue(u) ==
    IF u.json = "object" THEN DictOf(u.n)
    ELSE IF u.json = "array" THEN ListOf(u.n)
    ELSE NoneVal

\* every fetcher ends with "except Exception: return <empty>"
Handled(body, empty) == IF body.exc # "" THEN Ret(empty) ELSE body

gnews_headlines(keys, u) ==
    IF GNEWS \notin keys THEN Ret(EmptyList)
    ELSE Handled(
           IF ParsedBody(u, "HTTPError", "URLError").exc # ""
           THEN ParsedBody(u, "HTTPError", "URLError")
           ELSE IF u.json # "object" THEN Exc("AttributeError")
           ELSE Ret(DictGet(u, EmptyList)),
           EmptyList)

newsapi_headlines(keys, u) ==
    IF NEWSAPI \notin keys THEN Ret(EmptyList)
    ELSE Handled(
           IF ParsedBody(u, "HTTPError", "RequestException").exc # ""
           THEN ParsedBody(u, "HTTPError", "RequestException")
           ELSE IF u.json # "object" THEN Exc("AttributeError")
           ELSE IF u.status = "ok" THEN Ret(DictGet(u, EmptyList))
           ELSE Ret(EmptyList),
           EmptyList)

nytimes_headlines(keys, u) ==
    IF NYTIMES \notin keys THEN Ret(EmptyList)
    ELSE Handled(
           IF ParsedBody(u, "HTTPError", "RequestException").exc # ""
           THEN ParsedBody(u, "HTTPError", "RequestException")
           ELSE IF u.json # "object" THEN Exc("AttributeError")
           ELSE Ret(DictGet(u, EmptyList)),
           EmptyList)

alpha_vantage_headlines(keys, u) ==
    IF ALPHA \notin keys THEN Ret(EmptyDict)
    ELSE Handled(
           IF ParsedBody(u, "RequestException", "RequestException").exc # ""
           THEN ParsedBody(u, "RequestException", "RequestException")
           ELSE Ret(JsonValue(u)),
           EmptyDict)

weather(keys, u) ==
    IF WEATHER \notin keys THEN Ret(EmptyDict)
    ELSE Handled(
           IF ParsedBody(u, "RequestException", "RequestException").exc # ""
           THEN ParsedBody(u, "RequestException", "RequestException")
           ELSE Ret(JsonValue(u)),
           EmptyDict)

(***************************************************************************)
(* The prompt of the Script Composer.                                      *)
(***************************************************************************)
Min(a, b) == IF a < b THEN a ELSE b
Prompt(kind, g, n, t, a, w) == [kind |-> kind, g |-> g, n |-> n, t |-> t, a |-> a, w |-> w]
NoPrompt == Prompt("none", << >>, << >>, << >>, << >>, << >>)

\* json.dumps(data[:5]) if data else 'No data available'
ExcerptWhole(val) == IF IsTrue(val) THEN val.v ELSE << >>
Excerpt(val) == IF IsTrue(val) THEN SubSeq(val.v, 1, Min(ExcerptLen, Len(val.v))) ELSE << >>
\* json.dumps(data) if data else 'No data available'
Full(val) == IF IsTrue(val) THEN val.v ELSE << >>

\* not any([gnews_data, newsapi_data, nytimes_data])
UseFallbackAllFive(g, n, t, a, w) ==
    ~(IsTrue(g) \/ IsTrue(n) \/ IsTrue(t) \/ IsTrue(a) \/ IsTrue(w))
UseFallback(g, n, t, a, w) == ~(IsTrue(g) \/ IsTrue(n) \/ IsTrue(t))

ComposePrompt(g, n, t, a, w) ==
    IF UseFallback(g, n, t, a, w)
    THEN Prompt("fallback", << >>, << >>, << >>, << >>, << >>)
    ELSE Prompt("rich", Excerpt(g), Excerpt(n), Excerpt(t), Full(a), Full(w))

(***************************************************************************)
(* The text model and the validation of its answer.                        *)
(***************************************************************************)
X(n) == << Run("x", n) >>
Ws(n) == << Run("ws", n) >>
Stars(n) == << Run("*", n) >>
ErrorWord == FromChars(ErrorMarker)

Texts ==
    { EmptyStr,
      Ws(10),
      Cat(ErrorWord, X(20)),
      Cat(Ws(3), Cat(X(WriterMinLen - 1), Ws(3))),
      X(WriterMinLen),
      Cat(ErrorWord, X(200)),
      Cat(Stars(1), Cat(ErrorWord, X(200))),
      Stars(WriterMinLen),
      Cat(Stars(60), X(GateMinLen - 1)),
      Cat(X(GateMinLen), Stars(50)),
      Cat(X(50), Cat(Stars(30), X(30))),
      X(TruncateLen),
      X(TruncateLen + 1),
      Cat(Stars(1), Cat(Ws(TruncateLen - 10), X(60))) }

TextResponses ==
    { [t |-> "raise", text |-> EmptyStr] } \cup { [t |-> "resp", text |-> x] : x \in Texts }

NoTextResp == [t |-> "none", text |-> EmptyStr]

Gen(path, value) == [path |-> path, value |-> value]
NoGen == Gen("none", EmptyStr)

\* script.replace("**", "").replace("*", "")
CleanMarkup(s) == ReplaceStar(ReplaceDoubleStar(s))

ValidateTextNoStrip(r) ==
    IF r.t = "raise" THEN Gen("exception", MsgCallFailed)
    ELSE IF ~Truthy(r.text) THEN Gen("empty", MsgEmptyResponse)
    ELSE IF StrLen(r.text) < WriterMinLen THEN Gen("too_short", MsgTooShort)
    ELSE Gen("ok", CleanMarkup(Strip(r.text)))
\* writer.py lines 251-274: what generate_podcast_script returns for an answer
ValidateText(r) ==
    IF r.t = "raise" THEN Gen("exception", MsgCallFailed)
    ELSE IF ~Truthy(r.text) THEN Gen("empty", MsgEmptyResponse)
    ELSE IF StrLen(Strip(r.text)) < WriterMinLen THEN Gen("too_short", MsgTooShort)
    ELSE Gen("ok", CleanMarkup(Strip(r.text)))

(***************************************************************************)
(* The script gate of generate_podcast (app.py lines 249-265).             *)
(***************************************************************************)
GateVerdictNoLength(s) ==
    IF ~Truthy(s) THEN "empty"
    ELSE IF StartsWith(s, ErrorMarker) THEN "failed"
    ELSE "pass"
GateVerdict(s) ==
    IF ~Truthy(s) THEN "empty"
    ELSE IF StartsWith(s, ErrorMarker) THEN "failed"
    ELSE IF StrLen(Strip(s)) < GateMinLen THEN "too_short"
    ELSE "pass"

\* script[:3000] + "..." when len(script) > 3000
TruncateNever(s) == s
Truncate(s) == IF StrLen(s) > TruncateLen THEN Cat(Take(s, TruncateLen), Ellipsis) ELSE s

(***************************************************************************)
(* The speech model: outcomes of one generate_content call, and the shape  *)
(* of a response that has candidates.                                      *)
(***************************************************************************)
Out(t, id) == [t |-> t, id |-> id]
TtsFailures == { Out("empty", 0) } \cup { Out("raise", k) : k \in 1..MaxErr }

ErrV(t, id) == [t |-> t, id |-> id]
NoErr == ErrV("none", 0)
GenericErr == ErrV("generic", 0)          \* f"All {max_retries} attempts failed"
ExcErr(k) == ErrV("exc", k)               \* str(e)

\* inline_data.data: base64 text, as runs of 4-character groups that each
\* encode 3 bytes of the same value, of which the padding takes the last pad away
Data(present, quads, pad, padOk) ==
    [present |-> present, quads |-> quads, pad |-> pad, padOk |-> padOk]
NoData == Data(FALSE, << >>, 0, FALSE)
Quads(n) == << Run("a", n - 1), Run("b", 1) >>

\* inline_data.mime_type: the parameters after the type, in order; digits is the
\* run of decimal digits the value starts with
Param(name, digits) == [name |-> name, digits |-> digits]
Mime(present, params) == [present |-> present, params |-> params]
NoMime == Mime(FALSE, << >>)
Codec == Param("codec", << >>)
Rate(digits) == Param("rate", digits)
MimeOf(params) == Mime(TRUE, << Codec >> \o params)

Shape(content, parts, inline, data, mime) ==
    [content |-> content, parts |-> parts, inline |-> inline, data |-> data, mime |-> mime]
NoShape == Shape(FALSE, 0, FALSE, NoData, NoMime)
Audio(data, mime) == Shape(TRUE, 1, TRUE, data, mime)
TtsShapes ==
    { Audio(Data(TRUE, Quads(334), 2, TRUE), MimeOf(<< Rate(<< 1, 6, 0, 0, 0 >>) >>)),
      Audio(Data(TRUE, Quads(400), 0, TRUE), MimeOf(<< >>)),
      Audio(Data(TRUE, Quads(400), 0, TRUE), NoMime),
      Audio(Data(TRUE, Quads(400), 1, TRUE), MimeOf(<< Rate(<< 0 >>) >>)),
      Audio(Data(TRUE, Quads(334), 1, TRUE), MimeOf(<< Rate(<< 2, 4, 0, 0, 0 >>) >>)),
      Audio(Data(TRUE, Quads(400), 0, TRUE),
            MimeOf(<< Param("bitrate", << 1, 2, 8 >>), Rate(<< 1, 6, 0, 0, 0 >>) >>)),
      Audio(Data(TRUE, Quads(400), 0, TRUE),
            MimeOf(<< Rate(<< >>), Rate(<< 8, 0, 0, 0 >>) >>)),
      Audio(Data(TRUE, Quads(400), 0, TRUE),
            MimeOf(<< Rate(<< 2, 1, 4, 7, 4, 8, 3, 6, 4, 7 >>) >>)),
      Audio(Data(TRUE, Quads(400), 0, TRUE),
            MimeOf(<< Rate(<< 2, 1, 4, 7, 4, 8, 3, 6, 4, 8 >>) >>)),
      Shape(FALSE, 0, FALSE, NoData, NoMime),
      Shape(TRUE, 0, FALSE, NoData, NoMime),
      Shape(TRUE, 1, FALSE, Data(TRUE, Quads(400), 0, FALSE), NoMime),
      Audio(Data(FALSE, << >>, 0, TRUE), MimeOf(<< Rate(<< 2, 4, 0, 0, 0 >>) >>)),
      Audio(Data(TRUE, Quads(400), 0, FALSE), MimeOf(<< Rate(<< 2, 4, 0, 0, 0 >>) >>)),
      Audio(Data(TRUE, Quads(167), 1, FALSE), MimeOf(<< Rate(<< 2, 4, 0, 0, 0 >>) >>)),
      Audio(Data(TRUE, Quads(167), 1, TRUE), MimeOf(<< Rate(<< 0 >>) >>)),
      Audio(Data(TRUE, Quads(333), 0, TRUE), MimeOf(<< Rate(<< 2, 4, 0, 0, 0 >>) >>)) }

Resp(call, shape) == [call |-> call, shape |-> shape]
NoResp == Resp(0, NoShape)

\* try_tts_generation: does it return after this attempt (1-based)?
AttemptReturnsOneMore(attempt, out) == out.t = "ok" \/ attempt >= MaxRetries + 1
AttemptReturnsNoShortCircuit(attempt, out) == attempt >= MaxRetries
AttemptReturns(attempt, out) == out.t = "ok" \/ attempt >= MaxRetries

\* try_tts_generation: is time.sleep(1) reached after this attempt?
SleepsAfterEveryRaise(attempt, out) == out.t = "raise"
SleepsBeforeRetry(attempt, out) == out.t = "raise" /\ attempt < MaxRetries

\* try_tts_generation: the error returned when the last attempt fails
ReturnedError(out) == IF out.t = "raise" THEN ExcErr(out.id) ELSE GenericErr

CallEv(model, attempt, out) ==
    [ev |-> "call", model |-> model, attempt |-> attempt, out |-> out.t, err |-> out.id, dur |-> 0]
SleepEv(model, attempt) ==
    [ev |-> "sleep", model |-> model, attempt |-> attempt, out |-> "", err |-> 0, dur |-> RetryDelay]

(***************************************************************************)
(* HTTP results.                                                           *)
(***************************************************************************)
\* what wave.open(buf, "wb") leaves in buf: the header fields and the data chunk
Wav(nchannels, sampwidth, framerate, data) ==
    [nchannels |-> nchannels, sampwidth |-> sampwidth, framerate |-> framerate,
     data |-> data, nbytes |-> StrLen(data)]
NoWav == [nchannels |-> 0, sampwidth |-> 0, framerate |-> 0, data |-> << >>, nbytes |-> 0]

\* the members of the JSON body debug_script answers with
DebugInfo(length, preview, valid) == [length |-> length, preview |-> preview, valid |-> valid]
NoDebug == DebugInfo(0, << >>, FALSE)

Result(kind, status, mediaType, keys, msg, detail, lastError, modelsTried, wav) ==
    [kind |-> kind, status |-> status, mediaType |-> mediaType, keys |-> keys, msg |-> msg,
     detail |-> detail, lastError |-> lastError, modelsTried |-> modelsTried, wav |-> wav,
     debug |-> NoDebug]
NoResult == Result("none", 0, "", {}, "", EmptyStr, NoErr, << >>, NoWav)

\* safe_jsonify({"error": msg + detail}, 500)
safe_jsonify(keys, msg, detail, lastError, modelsTried, status) ==
    Result("json", status, "application/json", keys, msg, detail, lastError, modelsTried, NoWav)
ErrorResult(msg, detail) == safe_jsonify({"error"}, msg, detail, NoErr, << >>, 500)
ModelsTriedBefore(idx) == SubSeq(TtsModels, 1, idx - 1)
ModelsTried(idx) == TtsModels
AllFailedResult(err, idx) ==
    safe_jsonify({"error", "models_tried"}, "TTS generation failed with all models",
                 EmptyStr, err, ModelsTried(idx), 500)
AudioResult(wav) ==
    Result("audio", 200, "audio/wav", {}, "", EmptyStr, NoErr, << >>, wav)

\* debug_script lines 393-398
ScriptLength(s) == IF Truthy(s) THEN StrLen(s) ELSE 0
ScriptPreview(s) ==
    IF Truthy(s) /\ StrLen(s) > PreviewLen THEN Cat(Take(s, PreviewLen), Ellipsis) ELSE s
ScriptValid(s) == Truthy(s) /\ StrLen(s) > DebugMinLen /\ ~StartsWith(s, ErrorMarker)
DebugResult(s) ==
    [safe_jsonify({"status", "script_length", "script_preview", "script_valid"},
                  "", EmptyStr, NoErr, << >>, 200)
       EXCEPT !.debug = DebugInfo(ScriptLength(s), ScriptPreview(s), ScriptValid(s))]

\* base64.b64decode of a correctly padded payload
B64DecodedLen(d) == 3 * StrLen(d.quads) - d.pad
B64Decode(d) ==
    Take(Norm([i \in 1..Len(d.quads) |-> Run(d.quads[i].c, 3 * d.quads[i].n)]),
         B64DecodedLen(d))

\* int(digits); a frame rate above MaxFrameRate does not fit the 32-bit
\* byte-rate field of the header and is only remembered as "big"
Num(big, n) == [big |-> big, n |-> n]
RECURSIVE ParseDigits(_, _)
ParseDigits(ds, acc) ==
    IF Len(ds) = 0 THEN acc
    ELSE IF acc.big \/ acc.n > (MaxFrameRate - ds[1]) \div 10 THEN Num(TRUE, 0)
    ELSE ParseDigits(Tail(ds), Num(FALSE, 10 * acc.n + ds[1]))

\* re.search(r"rate=(\d+)", mime_type or ""): the leftmost place where the text
\* "rate=" is followed by a digit, also at the end of a longer parameter name
RateMatches(m) ==
    { i \in 1..Len(m.params) :
        m.params[i].name \in {"rate", "bitrate"} /\ Len(m.params[i].digits) > 0 }
FirstOf(S) == CHOOSE i \in S : \A j \in S : i <= j
SampleRate(m) ==
    IF m.present /\ RateMatches(m) # {}
    THEN ParseDigits(m.params[FirstOf(RateMatches(m))].digits, Num(FALSE, 0))
    ELSE Num(FALSE, DefaultRate)

\* len(pcm_bytes) < 1000
TooShortLenient(nbytes) == nbytes < MinAudioBytes - 1
TooShort(nbytes) == nbytes < MinAudioBytes

\* wave: setframerate refuses a rate <= 0, the header cannot hold a big one
RateAccepted(r) == ~r.big /\ r.n > 0

\* app.py lines 303-376: the steps run on a response and the result returned
StructureOk(sh) == sh.content /\ sh.parts > 0 /\ sh.inline /\ sh.data.present
AudioSteps(sh) ==
    IF ~StructureOk(sh) THEN << "structure" >>
    ELSE IF ~sh.data.padOk THEN << "structure", "decode" >>
    ELSE IF TooShort(B64DecodedLen(sh.data)) THEN << "structure", "decode", "length" >>
    ELSE << "structure", "decode", "length", "rate", "wav" >>

ProcessAudioResultLengthFirst(sh) ==
    IF ~sh.content \/ sh.parts = 0 THEN ErrorResult("TTS response missing content parts", EmptyStr)
    ELSE IF ~sh.inline THEN ErrorResult("TTS response missing inline_data", EmptyStr)
    ELSE IF ~sh.data.present THEN ErrorResult("No audio data in TTS response", EmptyStr)
    ELSE IF TooShort(B64DecodedLen(sh.data)) THEN ErrorResult("Audio data too short", EmptyStr)
    ELSE IF ~sh.data.padOk THEN ErrorResult("Failed to decode audio data", EmptyStr)
    ELSE IF ~RateAccepted(SampleRate(sh.mime)) THEN ErrorResult("WAV conversion failed", EmptyStr)
    ELSE AudioResult(Wav(1, 2, SampleRate(sh.mime).n, B64Decode(sh.data)))
ProcessAudioResult(sh) ==
    IF ~sh.content \/ sh.parts = 0 THEN ErrorResult("TTS response missing content parts", EmptyStr)
    ELSE IF ~sh.inline THEN ErrorResult("TTS response missing inline_data", EmptyStr)
    ELSE IF ~sh.data.present THEN ErrorResult("No audio data in TTS response", EmptyStr)
    ELSE IF ~sh.data.padOk THEN ErrorResult("Failed to decode audio data", EmptyStr)
    ELSE IF TooShort(B64DecodedLen(sh.data)) THEN ErrorResult("Audio data too short", EmptyStr)
    ELSE IF ~RateAccepted(SampleRate(sh.mime)) THEN ErrorResult("WAV conversion failed", EmptyStr)
    ELSE AudioResult(Wav(1, 2, SampleRate(sh.mime).n, B64Decode(sh.data)))

(***************************************************************************)
(* State.                                                                  *)
(***************************************************************************)
VARIABLES
    env,         \* os.environ: the set of keys holding a non-empty value
    env0,        \* os.environ as it was when the process started
    endpoint,    \* the route serving the request
    dotenv,      \* the keys the .env file defines
    pc,          \* position of the request in generate_podcast / generate_podcast_script
    fetched,     \* gnews_data, newsapi_data, nytimes_data, alpha_vantage_data, weather_data
    lastFetch,   \* the most recent fetcher call: source, upstream answer, outcome
    prompt,      \* script_prompt
    gen,         \* the value generate_podcast_script returned and the path it returned on
    script,      \* script in generate_podcast
    textCalls,   \* calls of client.generate_content (text model) in this request
    ttsIdx,      \* index in tts_models of the model being tried
    ttsAttempt,  \* attempt + 1 in try_tts_generation
    ttsLog,      \* speech-model calls and sleeps of this request, in order
    ttsScripts,  \* the contents argument of each speech-model call, in order
    ttsResp,     \* response in generate_podcast
    lastError,   \* last_error in generate_podcast
    audioSteps,  \* steps of the audio processing that ran
    stages,      \* the pipeline stages this request has entered, in order
    textResp,    \* the answer of the text model in this request
    result       \* what the endpoint returned

vars == << env, env0, endpoint, dotenv, pc, fetched, lastFetch, prompt, gen, script, textCalls,
           ttsIdx, ttsAttempt, ttsLog, ttsScripts, ttsResp, lastError, audioSteps, stages,
           textResp, result >>

Sources == << "gnews", "newsapi", "nytimes", "alpha", "weather" >>
SourceSet == { Sources[i] : i \in 1..Len(Sources) }
NoFetch == [src |-> "none", up |-> NoUp, out |-> Ret(Unset)]
NothingFetched == [s \in SourceSet |-> Unset]

\* the two routes that run the generator, and where each handler starts
Endpoints == {"generate_podcast", "debug_script"}
StartPc(e) == IF e = "generate_podcast" THEN "g_env" ELSE "d_import"

Init ==
    /\ \E c \in Configs : env = c[1] /\ dotenv = c[2]
    /\ env0 = env
    /\ \E e \in Endpoints : endpoint = e /\ pc = StartPc(e)
    /\ fetched = NothingFetched
    /\ lastFetch = NoFetch
    /\ prompt = NoPrompt
    /\ gen = NoGen
    /\ script = EmptyStr
    /\ textCalls = 0
    /\ ttsIdx = 1
    /\ ttsAttempt = 1
    /\ ttsLog = << >>
    /\ ttsScripts = << >>
    /\ ttsResp = NoResp
    /\ lastError = NoErr
    /\ audioSteps = << >>
    /\ stages = << >>
    /\ textResp = NoTextResp
    /\ result = NoResult

writerVars == << fetched, lastFetch, prompt, gen, script, textCalls, textResp >>
\* the request enters stage st (recorded once)
Enter(st) ==
    stages' = IF Len(stages) > 0 /\ stages[Len(stages)] = st THEN stages ELSE Append(stages, st)
ttsVars == << ttsIdx, ttsAttempt, ttsLog, ttsScripts, ttsResp, lastError, audioSteps >>

\* generate_podcast returns
Finish(r) == pc' = "done" /\ result' = r

(***************************************************************************)
(* generate_podcast, steps 1-4.                                            *)
(***************************************************************************)
\* lines 202-203: os.getenv("GEMINI_API_KEY") is set and not empty
KeyConfiguredAlways(keys) == TRUE
KeyConfigured(keys) == GEMINI \in keys

\* Step 1 (lines 200-207) and step 2 (lines 209-218)
CheckEnv ==
    /\ pc = "g_env"
    /\ IF ~KeyConfigured(env)
       THEN Finish(ErrorResult("GEMINI_API_KEY not configured", EmptyStr)) /\ UNCHANGED env
       ELSE pc' = "g_import" /\ env' = env \cup dotenv /\ UNCHANGED result
    /\ UNCHANGED << dotenv, env0, endpoint, writerVars, ttsVars, stages >>

\* Step 3 (lines 220-235)
ImportModules ==
    /\ pc = "g_import"
    /\ \E imp \in {"ok", "no_genai", "no_writer"} :
         IF imp = "no_genai"
         THEN Finish(ErrorResult("Failed to import Google AI modules", EmptyStr))
         ELSE IF imp = "no_writer"
         THEN Finish(ErrorResult("Failed to import writer module", EmptyStr))
         ELSE pc' = "g_client" /\ UNCHANGED result
    /\ UNCHANGED << env, dotenv, env0, endpoint, writerVars, ttsVars, stages >>

\* Step 4 (lines 237-244)
InitTtsClient ==
    /\ pc = "g_client"
    /\ \E ok \in BOOLEAN :
         IF ok THEN pc' = "w_import" /\ UNCHANGED result
         ELSE Finish(ErrorResult("TTS client initialization failed", EmptyStr))
    /\ UNCHANGED << env, dotenv, env0, endpoint, writerVars, ttsVars, stages >>

(***************************************************************************)
(* writer.generate_podcast_script.                                         *)
(***************************************************************************)
\* the generator returns value v on path p: its locals die, the caller holds v
WriterReturns(g) ==
    /\ gen' = g
    /\ script' = g.value
    /\ pc' = IF endpoint = "generate_podcast" THEN "g_gate" ELSE "d_return"
    /\ fetched' = NothingFetched
    /\ lastFetch' = NoFetch
    /\ prompt' = NoPrompt

\* lines 175-182
WriterImport ==
    /\ pc = "w_import"
    /\ \E ok \in BOOLEAN :
         IF ok THEN pc' = "w_init" /\ UNCHANGED << fetched, lastFetch, prompt, gen, script >>
         ELSE WriterReturns(Gen("import_failed", MsgImportFailed))
    /\ UNCHANGED << env, dotenv, env0, endpoint, textCalls, textResp, ttsVars, stages, result >>

\* lines 184-196 with get_api_key (lines 12-30)
WriterInit ==
    /\ pc = "w_init"
    /\ env' = env \cup dotenv
    /\ \E ok \in BOOLEAN :
         IF GEMINI \notin env' THEN WriterReturns(Gen("key_missing", MsgKeyMissing))
         ELSE IF ~ok THEN WriterReturns(Gen("init_failed", MsgInitFailed))
         ELSE pc' = "w_gnews" /\ UNCHANGED << fetched, lastFetch, prompt, gen, script >>
    /\ UNCHANGED << dotenv, env0, endpoint, textCalls, textResp, ttsVars, stages, result >>

\* lines 200-204: one fetcher call; out maps each upstream answer to the outcome
Fetch(at, next, src, out) ==
    /\ pc = at
    /\ \E u \in DOMAIN out :
         /\ fetched' = [fetched EXCEPT ![src] = out[u].val]
         /\ lastFetch' = [src |-> src, up |-> u, out |-> out[u]]
    /\ pc' = next
    /\ Enter(src)
    /\ UNCHANGED << env, dotenv, env0, endpoint, prompt, gen, script, textCalls, textResp, ttsVars, result >>

FetchGnews == Fetch("w_gnews", "w_newsapi", "gnews", [u \in Upstreams |-> gnews_headlines(env, u)])
FetchNewsapi == Fetch("w_newsapi", "w_nytimes", "newsapi", [u \in Upstreams |-> newsapi_headlines(env, u)])
FetchNytimes == Fetch("w_nytimes", "w_alpha", "nytimes", [u \in Upstreams |-> nytimes_headlines(env, u)])
FetchAlpha == Fetch("w_alpha", "w_weather", "alpha", [u \in MapUpstreams |-> alpha_vantage_headlines(env, u)])
FetchWeather == Fetch("w_weather", "w_compose", "weather", [u \in MapUpstreams |-> weather(env, u)])

\* lines 206-240: the log line takes len() of the three lists, then the prompt is built
Compose ==
    /\ pc = "w_compose"
    /\ IF \E s \in {"gnews", "newsapi", "nytimes"} : ~HasLen(fetched[s])
       THEN WriterReturns(Gen("exception", MsgCallFailed)) /\ UNCHANGED stages
       ELSE /\ Enter("compose")
            /\ prompt' = ComposePrompt(fetched["gnews"], fetched["newsapi"], fetched["nytimes"],
                                       fetched["alpha"], fetched["weather"])
            /\ pc' = "w_call"
            /\ UNCHANGED << fetched, lastFetch, gen, script >>
    /\ UNCHANGED << env, dotenv, env0, endpoint, textCalls, textResp, ttsVars, result >>

\* lines 242-274: the text-model call and the validation of its answer
TextCall ==
    /\ pc = "w_call"
    /\ textCalls' = textCalls + 1
    /\ Enter("generate")
    /\ \E r \in TextResponses : textResp' = r /\ WriterReturns(ValidateText(r))
    /\ UNCHANGED << env, dotenv, env0, endpoint, ttsVars, result >>

(***************************************************************************)
(* generate_podcast, steps 5-7.                                            *)
(***************************************************************************)
\* Step 5 (lines 249-269): the checks on the returned script, then truncation
ScriptGate ==
    /\ pc = "g_gate"
    /\ LET v == GateVerdict(script) IN
         IF v = "empty"
         THEN Finish(ErrorResult("Script generation returned empty result", EmptyStr))
              /\ UNCHANGED script
         ELSE IF v = "failed"
         THEN Finish(ErrorResult("Script generation failed", script)) /\ UNCHANGED script
         ELSE IF v = "too_short"
         THEN Finish(ErrorResult("Generated script is too short", EmptyStr)) /\ UNCHANGED script
         ELSE pc' = "g_tts" /\ script' = Truncate(script) /\ UNCHANGED result
    /\ UNCHANGED << env, dotenv, env0, endpoint, fetched, lastFetch, prompt, gen, textCalls, textResp,
                    ttsVars, stages >>

\* Step 6 (lines 283-293) around one iteration of try_tts_generation (lines 158-191)
\* whose call returns a response with candidates
TtsSuccess ==
    /\ pc = "g_tts"
    /\ Enter("synthesize")
    /\ \E sh \in TtsShapes :
         LET out == Out("ok", 0) IN
         /\ ttsLog' = ttsLog \o << CallEv(ttsIdx, ttsAttempt, out) >>
         /\ ttsScripts' = Append(ttsScripts, script)
         /\ IF AttemptReturns(ttsAttempt, out)
            THEN /\ ttsResp' = Resp(Len(ttsScripts) + 1, sh)
                 /\ pc' = "g_audio"
                 /\ UNCHANGED << ttsIdx, ttsAttempt, lastError, result >>
            ELSE /\ ttsAttempt' = ttsAttempt + 1
                 /\ UNCHANGED << ttsIdx, ttsResp, lastError, pc, result >>
    /\ UNCHANGED << env, dotenv, env0, endpoint, writerVars, audioSteps >>

\* ... whose call raises or returns no candidates
TtsFailure ==
    /\ pc = "g_tts"
    /\ Enter("synthesize")
    /\ \E out \in TtsFailures :
         /\ ttsLog' = ttsLog \o << CallEv(ttsIdx, ttsAttempt, out) >>
                             \o (IF SleepsBeforeRetry(ttsAttempt, out)
                                 THEN << SleepEv(ttsIdx, ttsAttempt) >> ELSE << >>)
         /\ ttsScripts' = Append(ttsScripts, script)
         /\ IF ~AttemptReturns(ttsAttempt, out)
            THEN ttsAttempt' = ttsAttempt + 1 /\ UNCHANGED << ttsIdx, lastError, pc, result >>
            ELSE /\ lastError' = ReturnedError(out)
                 /\ IF ttsIdx < Len(TtsModels)
                    THEN ttsIdx' = ttsIdx + 1 /\ ttsAttempt' = 1 /\ UNCHANGED << pc, result >>
                    ELSE /\ Finish(AllFailedResult(lastError', ttsIdx))
                         /\ UNCHANGED << ttsIdx, ttsAttempt >>
    /\ UNCHANGED << env, dotenv, env0, endpoint, writerVars, ttsResp, audioSteps >>

\* Step 7 (lines 303-376)
ProcessAudio ==
    /\ pc = "g_audio"
    /\ Enter("package")
    /\ audioSteps' = AudioSteps(ttsResp.shape)
    /\ Finish(ProcessAudioResult(ttsResp.shape))
    /\ UNCHANGED << env, dotenv, env0, endpoint, writerVars, ttsIdx, ttsAttempt, ttsLog, ttsScripts,
                    ttsResp, lastError >>

(***************************************************************************)
(* debug_script.                                                           *)
(***************************************************************************)
\* line 390: import writer
DebugImport ==
    /\ pc = "d_import"
    /\ \E ok \in BOOLEAN :
         IF ok THEN pc' = "w_import" /\ UNCHANGED result
         ELSE Finish(safe_jsonify({"error"}, "import writer", EmptyStr, NoErr, << >>, 500))
    /\ UNCHANGED << env, dotenv, env0, endpoint, writerVars, ttsVars, stages >>

\* lines 393-398
DebugReturn ==
    /\ pc = "d_return"
    /\ Finish(DebugResult(script))
    /\ UNCHANGED << env, dotenv, env0, endpoint, writerVars, ttsVars, stages >>

\* the next request of the same process: only os.environ is kept
NewRequest ==
    /\ pc = "done"
    /\ \E e \in Endpoints : endpoint' = e /\ pc' = StartPc(e)
    /\ fetched' = NothingFetched
    /\ lastFetch' = NoFetch
    /\ prompt' = NoPrompt
    /\ gen' = NoGen
    /\ script' = EmptyStr
    /\ textCalls' = 0
    /\ ttsIdx' = 1
    /\ ttsAttempt' = 1
    /\ ttsLog' = << >>
    /\ ttsScripts' = << >>
    /\ ttsResp' = NoResp
    /\ lastError' = NoErr
    /\ audioSteps' = << >>
    /\ stages' = << >>
    /\ textResp' = NoTextResp
    /\ result' = NoResult
    /\ UNCHANGED << env, dotenv, env0 >>

Next ==
    \/ CheckEnv
    \/ ImportModules
    \/ InitTtsClient
    \/ WriterImport
    \/ WriterInit
    \/ FetchGnews
    \/ FetchNewsapi
    \/ FetchNytimes
    \/ FetchAlpha
    \/ FetchWeather
    \/ Compose
    \/ TextCall
    \/ ScriptGate
    \/ TtsSuccess
    \/ TtsFailure
    \/ ProcessAudio
    \/ DebugImport
    \/ DebugReturn
    \/ NewRequest

Spec == Init /\ [][Next]_vars

TypeOK ==
    /\ pc \in {"g_env", "g_import", "g_client", "w_import", "w_init", "w_gnews", "w_newsapi",
               "w_nytimes", "w_alpha", "w_weather", "w_compose", "w_call", "g_gate", "g_tts",
               "g_audio", "d_import", "d_return", "done"}
    /\ endpoint \in Endpoints
    /\ env0 \subseteq AllKeys /\ env0 \subseteq env
    /\ ttsIdx \in 1..Len(TtsModels)
    /\ script = Norm(script)

(***************************************************************************)
(* Properties.                                                             *)
(***************************************************************************)
\* the request is served by generate_podcast
Podcast == endpoint = "generate_podcast"
Calls == SelectSeq(ttsLog, LAMBDA e : e.ev = "call")
AllFailedMsg == "TTS generation failed with all models"
AllFailed == pc = "done" /\ result.msg = AllFailedMsg
OkCalls == { j \in 1..Len(Calls) : Calls[j].out = "ok" }
RaisedCalls == { j \in 1..Len(Calls) : Calls[j].out = "raise" }
Largest(S) == CHOOSE j \in S : \A k \in S : k <= j
Smallest(S) == CHOOSE j \in S : \A k \in S : j <= k

\* C1: when some attempt returns a non-empty candidate list, the first such
\* attempt (attempt k on the model at position i) ends the synthesis with
\* Success: the response kept is that attempt's, it is call number 2*(i-1)+k of
\* the request, and no synthesis call follows it.
C1_SuccessPath ==
    OkCalls # {} =>
        LET j == Smallest(OkCalls) IN
        /\ j = 2 * (Calls[j].model - 1) + Calls[j].attempt
        /\ Calls[j].attempt <= 2
        /\ Len(Calls) = j
        /\ ttsResp.call = j
        /\ pc \in {"g_audio", "done"}
        /\ result.msg # AllFailedMsg

\* C1 witness: the primary model failed twice and the fallback succeeded first
C1_Witness ==
    /\ Len(Calls) = 3
    /\ Calls[1].out # "ok" /\ Calls[2].out # "ok" /\ Calls[3].out = "ok"
    /\ Calls[3].model = 2 /\ Calls[3].attempt = 1
    /\ ttsResp.call = 3

\* C2: when every attempt on every model fails, the request ends in the
\* AllFailed error after exactly 4 synthesis calls, the error carries the full
\* model list in preference order, and no audio step runs; and 4 failed calls
\* always end the request that way.
C2_FailurePath ==
    /\ AllFailed =>
          /\ Len(Calls) = 4
          /\ OkCalls = {}
          /\ [j \in 1..4 |-> Calls[j].model] = << 1, 1, 2, 2 >>
          /\ result.modelsTried =
                << "gemini-2.5-flash-preview-tts", "gemini-2.5-pro-preview-tts" >>
          /\ result.kind = "json" /\ result.status = 500 /\ "error" \in result.keys
          /\ audioSteps = << >>
          /\ result.wav = NoWav
    /\ (Len(Calls) = 4 /\ OkCalls = {}) => AllFailed

\* C2 witness: four failed calls of both kinds ended the request
C2_Witness ==
    /\ AllFailed
    /\ Len(Calls) = 4
    /\ \E j \in 1..4 : Calls[j].out = "empty"
    /\ \E j \in 1..4 : Calls[j].out = "raise"

\* C3: a second attempt on the same model is always preceded by the delay,
\* whatever the failure of the first attempt (so two calls on one model are
\* never adjacent in the log).
C3_DelayBeforeRetry ==
    \A i \in 1..(Len(ttsLog) - 1) :
        (ttsLog[i].ev = "call" /\ ttsLog[i + 1].model = ttsLog[i].model)
            => (ttsLog[i + 1].ev = "sleep" /\ ttsLog[i + 1].dur = 1)

\* C4: in AllFailed, if any attempt of the request raised, the reported last
\* error is the message of the most recently raised one.
C4_LastObservedError ==
    (AllFailed /\ RaisedCalls # {}) =>
        result.lastError = ExcErr(Calls[Largest(RaisedCalls)].err)

\* C5: the stages are entered strictly in the order fetch (five sources),
\* compose, generate, synthesize, package; after a Script Generator failure no
\* synthesis call is made; after AllFailed no audio step runs.
StageOrder ==
    << "gnews", "newsapi", "nytimes", "alpha", "weather",
       "compose", "generate", "synthesize", "package" >>
GeneratorFailed == gen.path \notin {"none", "ok"}
C5_PipelineOrder ==
    /\ Len(stages) <= Len(StageOrder)
    /\ stages = SubSeq(StageOrder, 1, Len(stages))
    /\ GeneratorFailed => (Len(Calls) = 0 /\ ttsScripts = << >> /\ audioSteps = << >>)
    /\ (Podcast /\ GeneratorFailed /\ pc \notin {"g_gate"}) => (pc = "done" /\ result.kind = "json")
    /\ AllFailed => (audioSteps = << >> /\ Len(stages) = Len(StageOrder) - 1)

\* C5 witness: the generator failed with the value that lacks the "Error"
\* marker and the request ended without a synthesis call
C5_Witness ==
    /\ Podcast
    /\ pc = "done"
    /\ gen.path = "too_short"
    /\ ~StartsWith(gen.value, ErrorMarker)
    /\ Len(Calls) = 0
    /\ stages = SubSeq(StageOrder, 1, 7)

\* C6: every request ends either with a complete audio/wav container or with a
\* JSON "error" object and status 500, and no outcome carries script text or
\* partial audio.
CarriesScriptText == gen.path = "ok" /\ Truthy(result.detail) /\ result.detail = gen.value
C6_AllOrNothing ==
    (Podcast /\ pc = "done") =>
        \/ /\ result.kind = "audio" /\ result.mediaType = "audio/wav"
           /\ result.wav.nchannels = 1 /\ result.wav.sampwidth = 2
           /\ result.wav.nbytes >= MinAudioBytes
           /\ ~CarriesScriptText
        \/ /\ result.kind = "json" /\ "error" \in result.keys /\ result.status = 500
           /\ result.wav = NoWav
           /\ ~CarriesScriptText

\* C7: every script handed to a synthesis call is non-empty, does not start
\* with "Error" and has trimmed length at least 50.
C7_ScriptGate ==
    \A i \in 1..Len(ttsScripts) :
        /\ Truthy(ttsScripts[i])
        /\ ~StartsWith(ttsScripts[i], ErrorMarker)
        /\ StrLen(Strip(ttsScripts[i])) >= 50

\* C8 as stated: every text-model answer whose trimmed text is shorter than
\* 100 characters ends the request with the too-short error, without synthesis.
ShortAnswer == textResp.t = "resp" /\ StrLen(Strip(textResp.text)) < 100
EndsTooShort ==
    /\ result.kind = "json" /\ result.status = 500
    /\ result.msg = "Generated script is too short"
    /\ Len(Calls) = 0
C8_Original == (Podcast /\ pc = "done" /\ ShortAnswer) => EndsTooShort

\* C8 amended: every text-model answer with a non-empty text whose trimmed text
\* is shorter than 100 characters ends the request with the too-short error,
\* without synthesis; an answer with an empty text ends it with the
\* empty-response error, also without synthesis.
C8_TooShort ==
    /\ (Podcast /\ pc = "done" /\ ShortAnswer /\ Truthy(textResp.text)) => EndsTooShort
    /\ (Podcast /\ pc = "done" /\ textResp.t = "resp" /\ ~Truthy(textResp.text)) =>
           /\ result.kind = "json" /\ result.status = 500
           /\ result.msg = "Script generation failed"
           /\ result.detail = MsgEmptyResponse
           /\ Len(Calls) = 0
    /\ (pc \in {"g_tts", "g_audio"}) => ~ShortAnswer

\* C8 witness: a short answer that starts with "Error" ended as too short
C8_Witness ==
    /\ Podcast
    /\ pc = "done"
    /\ ShortAnswer
    /\ StartsWith(textResp.text, ErrorMarker)
    /\ result.msg = "Generated script is too short"

\* C9: the fallback prompt is chosen exactly when the GNews, NewsAPI and
\* NYTimes results are all empty, the rich prompt otherwise; business and
\* weather results have no part in the choice.
NewsEmpty == \A s \in {"gnews", "newsapi", "nytimes"} : Len(fetched[s].v) = 0
C9_ComposerRule ==
    pc = "w_call" =>
        /\ prompt.kind \in {"fallback", "rich"}
        /\ prompt.kind = "fallback" <=> NewsEmpty

\* C9 witness: the fallback prompt was chosen although business and weather
\* data were there
C9_Witness ==
    /\ pc = "w_call"
    /\ prompt.kind = "fallback"
    /\ Len(fetched["alpha"].v) > 0
    /\ Len(fetched["weather"].v) > 0

\* C10: a fetcher that met a missing credential, an HTTP error, a timeout or a
\* malformed payload returned its empty value and raised nothing.
KeyOf(src) ==
    CASE src = "gnews" -> GNEWS
      [] src = "newsapi" -> NEWSAPI
      [] src = "nytimes" -> NYTIMES
      [] src = "alpha" -> ALPHA
      [] OTHER -> WEATHER
EmptyOf(src) == IF src \in {"gnews", "newsapi", "nytimes"} THEN EmptyList ELSE EmptyDict
Malformed(src, u) ==
    \/ u.json # "object"
    \/ src \in {"gnews", "newsapi", "nytimes"} /\ u.field # "list"
FetchFailed ==
    /\ lastFetch.src # "none"
    /\ \/ KeyOf(lastFetch.src) \notin env
       \/ lastFetch.up.net # "ok"
       \/ Malformed(lastFetch.src, lastFetch.up)
FetchStageDone == Len(stages) >= 5 /\ pc \notin {"w_compose"}
LengthChecked == Podcast /\ pc = "done" /\ Len(audioSteps) >= 3
DecodedLen == B64DecodedLen(ttsResp.shape.data)
IsTooShortError ==
    /\ result.kind = "json" /\ result.status = 500
    /\ result.msg = "Audio data too short"
    /\ result.wav = NoWav
C12_Original ==
    LengthChecked =>
        /\ result.kind = "audio" => DecodedLen > 1000
        /\ ~(DecodedLen > 1000) => IsTooShortError

\* C12 amended: a container is produced only if the decoded length is at least
\* 1000 bytes; a payload decoding to fewer than 1000 bytes ends in the too-short
\* error without audio bytes, one decoding to exactly 1000 bytes does not.
C12_LengthGate ==
    LengthChecked =>
        /\ result.kind = "audio" => DecodedLen >= 1000
        /\ DecodedLen < 1000 => IsTooShortError
        /\ DecodedLen >= 1000 => ~IsTooShortError

\* C12 witness: a payload of exactly 1000 bytes became a container
C12_Witness ==
    /\ LengthChecked
    /\ DecodedLen = 1000
    /\ result.kind = "audio"
    /\ result.wav.nbytes = 1000

\* C13: a media type with a rate=<N> parameter gives a container declaring frame
\* rate N; a media type without a rate= token, or no media type, gives a
\* container declaring 24000.
RateParams(m) ==
    { i \in 1..Len(m.params) : m.params[i].name = "rate" /\ Len(m.params[i].digits) > 0 }
HasRateToken(m) == m.present /\ \E i \in 1..Len(m.params) : m.params[i].name \in {"rate", "bitrate"}
RateReached == Podcast /\ pc = "done" /\ Len(audioSteps) = 5
C13_SampleRate ==
    RateReached =>
        LET m == ttsResp.shape.mime IN
        /\ (m.present /\ RateParams(m) # {}) =>
               /\ result.kind = "audio"
               /\ Num(FALSE, result.wav.framerate) =
                      ParseDigits(m.params[FirstOf(RateParams(m))].digits, Num(FALSE, 0))
        /\ ~HasRateToken(m) => (result.kind = "audio" /\ result.wav.framerate = 24000)

\* C14: reading the container back gives 1 channel, sample width 2, the
\* frame rate it was packaged with and exactly the PCM bytes that were decoded.
\* wave's reader: getnframes() is the data size in whole frames, readframes
\* returns that many frames
ReadFrames(wav) ==
    Take(wav.data, (StrLen(wav.data) \div (wav.nchannels * wav.sampwidth))
                       * wav.nchannels * wav.sampwidth)
C14_RoundTrip ==
    (Podcast /\ pc = "done" /\ result.kind = "audio") =>
        /\ result.wav.nchannels = 1
        /\ result.wav.sampwidth = 2
        /\ result.wav.framerate = SampleRate(ttsResp.shape.mime).n
        /\ ReadFrames(result.wav) = B64Decode(ttsResp.shape.data)

C16_TaggedFailures == GeneratorFailed => StartsWith(gen.value, ErrorMarker)

\* C17: the outcome of a request depends only on the start-up configuration and
\* the upstream answers: a generate_podcast request of a process started without
\* the Gemini key ends at step 1 with the key error, whatever ran before.
C17_RequestIndependence ==
    (Podcast /\ pc # "g_env" /\ GEMINI \notin env0) =>
        (pc = "done" /\ result = ErrorResult("GEMINI_API_KEY not configured", EmptyStr))

\* C18: the rich prompt embeds, for each list source holding n items, its first
\* min(n, 5) items in their order, and the business and weather payloads whole.
FirstItems(val) == [i \in 1..Min(Len(val.v), 5) |-> val.v[i]]
C18_RichExcerpts ==
    (pc = "w_call" /\ prompt.kind = "rich") =>
        /\ prompt.g = FirstItems(fetched["gnews"])
        /\ prompt.n = FirstItems(fetched["newsapi"])
        /\ prompt.t = FirstItems(fetched["nytimes"])
        /\ prompt.a = fetched["alpha"].v
        /\ prompt.w = fetched["weather"].v

\* C18 witness: a source with more than five items was cut to five, a shorter
\* one was embedded whole, an empty one gave nothing, business data was there
C18_Witness ==
    /\ pc = "w_call" /\ prompt.kind = "rich"
    /\ Len(fetched["gnews"].v) = MaxItems /\ Len(prompt.g) = 5
    /\ Len(fetched["newsapi"].v) = 1 /\ Len(prompt.n) = 1
    /\ Len(fetched["nytimes"].v) = 0 /\ Len(prompt.t) = 0
    /\ Len(prompt.a) > 0

\* C19: the audio steps run in the order structure, decode, length, rate and
\* container; the first failing step alone decides the error, and no later step
\* runs.
StructureErrors ==
    { "TTS response missing content parts", "TTS response missing inline_data",
      "No audio data in TTS response" }
IsError(msgs) == result.kind = "json" /\ result.status = 500 /\ result.msg \in msgs
C19_StepOrder ==
    (Podcast /\ pc = "done" /\ Len(audioSteps) > 0) =>
        LET sh == ttsResp.shape IN
        IF ~StructureOk(sh)
        THEN audioSteps = << "structure" >> /\ IsError(StructureErrors)
        ELSE IF ~sh.data.padOk
        THEN audioSteps = << "structure", "decode" >> /\ IsError({"Failed to decode audio data"})
        ELSE IF B64DecodedLen(sh.data) < 1000
        THEN audioSteps = << "structure", "decode", "length" >>
             /\ IsError({"Audio data too short"})
        ELSE /\ audioSteps = << "structure", "decode", "length", "rate", "wav" >>
             /\ result.kind = "audio" \/ IsError({"WAV conversion failed"})

\* C19 witness: a payload both undecodable and short ended as a decode error
C19_Witness ==
    /\ Podcast /\ pc = "done"
    /\ StructureOk(ttsResp.shape)
    /\ ~ttsResp.shape.data.padOk
    /\ B64DecodedLen(ttsResp.shape.data) < 1000
    /\ result.msg = "Failed to decode audio data"

\* C20: a request makes at most 4 synthesis calls and sleeps at most 4 time
\* units between them; after the fourth call the Synthesizer has ended in
\* Success or AllFailed; the calls never go back to an earlier model.
RECURSIVE TotalDelay(_)
TotalDelay(log) == IF Len(log) = 0 THEN 0 ELSE Head(log).dur + TotalDelay(Tail(log))
C20_BoundedSynthesis ==
    /\ Len(Calls) <= 4
    /\ TotalDelay(ttsLog) <= 4
    /\ pc = "g_tts" => Len(Calls) < 4
    /\ (Len(Calls) = 4 /\ pc = "done") => (AllFailed \/ Len(audioSteps) > 0)
    /\ \A i, j \in 1..Len(Calls) : i < j => Calls[i].model <= Calls[j].model

\* C20 witness: four calls and a sleep on each model, ending in AllFailed
C20_Witness ==
    /\ pc = "done"
    /\ AllFailed
    /\ Len(Calls) = 4
    /\ TotalDelay(ttsLog) = 2

\* C21: a generate_podcast request that starts while GEMINI_API_KEY is absent
\* from the environment ends at once with the 500 error naming the missing
\* configuration, having made no source fetch, no text-model call and no
\* synthesis call; the generator, finding no key either, returns before any
\* fetch or call.
NothingCalled == stages = << >> /\ textCalls = 0 /\ ttsLog = << >> /\ lastFetch = NoFetch
KeyErrorResult ==
    /\ result.kind = "json" /\ result.status = 500 /\ "error" \in result.keys
    /\ result.msg = "GEMINI_API_KEY not configured"
C21_MissingKey ==
    [][ /\ (pc = "g_env" /\ GEMINI \notin env) =>
             (pc' = "done" /\ KeyErrorResult' /\ NothingCalled')
        /\ (pc = "w_init" /\ gen'.path = "key_missing") =>
             (NothingCalled' /\ pc' \in {"g_gate", "d_return"}) ]_vars

\* C21 witness: the key was only in the .env file and the request ended with
\* the configuration error
C21_Witness ==
    /\ Podcast /\ pc = "done"
    /\ GEMINI \notin env /\ GEMINI \in dotenv
    /\ KeyErrorResult
    /\ NothingCalled

\* C22: every value the generator returns on its success path has at least 100
\* characters once the emphasis markup is removed.
C22_MinLength == gen.path = "ok" => StrLen(CleanMarkup(gen.value)) >= 100

\* C23: every synthesis call of a request gets the same string: the validated
\* script if it has at most 3000 characters, else its first 3000 characters
\* followed by "..."; the string never has more than 3003 characters.
Spoken(s) == IF StrLen(s) <= 3000 THEN s ELSE Cat(Take(s, 3000), << Run(".", 3) >>)
C23_Truncation ==
    \A i \in 1..Len(ttsScripts) :
        /\ ttsScripts[i] = Spoken(gen.value)
        /\ ttsScripts[i] = ttsScripts[1]
        /\ StrLen(ttsScripts[i]) <= 3003

\* C23 witness: a script of more than 3000 characters was sent cut, twice
C23_Witness ==
    /\ Len(ttsScripts) >= 2
    /\ StrLen(gen.value) > 3000
    /\ StrLen(ttsScripts[2]) = 3003

\* C24: every wait follows a failed first attempt and precedes the second
\* attempt on the same model; no wait follows a successful attempt or a model's
\* final attempt, none lies between two models, and a request has at most one
\* wait per model.
Sleeps == { i \in 1..Len(ttsLog) : ttsLog[i].ev = "sleep" }
C24_DelayPlacement ==
    /\ \A i \in Sleeps :
         /\ i > 1
         /\ ttsLog[i - 1].ev = "call"
         /\ ttsLog[i - 1].model = ttsLog[i].model
         /\ ttsLog[i - 1].attempt = 1
         /\ ttsLog[i - 1].out # "ok"
         /\ IF i < Len(ttsLog)
            THEN /\ ttsLog[i + 1].ev = "call"
                 /\ ttsLog[i + 1].model = ttsLog[i].model
                 /\ ttsLog[i + 1].attempt = 2
            ELSE pc = "g_tts" /\ ttsIdx = ttsLog[i].model /\ ttsAttempt = 2
    /\ \A i, j \in Sleeps : ttsLog[i].model = ttsLog[j].model => i = j

\* C24 witness: one wait on each model, the last call succeeded
C24_Witness ==
    /\ pc = "g_audio"
    /\ Cardinality(Sleeps) = 2
    /\ Len(Calls) = 4
    /\ Calls[4].out = "ok"
    /\ ttsLog[Len(ttsLog)].ev = "call"

\* C25: the script_valid flag debug_script reports for the generator's value is
\* true exactly when the script gate of generate_podcast accepts that value.
C25_ValidityAgreement ==
    (endpoint = "debug_script" /\ pc = "done" /\ result.status = 200) =>
        (result.debug.valid <=> GateVerdict(gen.value) = "pass")

====
